---- MODULE Spec2Model ----
\* Conversify: the chat / audio-stream pipeline of the Django service
\* (djangoapp/api) and the transcription endpoint of the FastAPI service
\* (speech_recognition), as one state machine.  One request is handled at a
\* time, one handler statement group per step; the audio store (the files
\* under MEDIA_ROOT/uploads) and the scratch files of the transcription service
\* persist across requests.
EXTENDS Integers, Sequences, FiniteSets, TLC

\* ------------------------------------------------------------------ bounds
MaxRequests == 2      \* requests handled in one behaviour
MaxTextLen == 2       \* characters of a chat text

\* --------------------------------------------------------- status codes
HTTP_200_OK == 200
HTTP_400_BAD_REQUEST == 400
HTTP_401_UNAUTHORIZED == 401
HTTP_404_NOT_FOUND == 404
HTTP_500_INTERNAL == 500
HTTP_502_BAD_GATEWAY == 502

\* ----------------------------------------------------------------- strings
\* A string is a sequence of one-character strings.
RECURSIVE SeqsUpTo(_, _)
SeqsUpTo(S, n) ==
    IF n = 0 THEN {<<>>}
    ELSE LET shorter == SeqsUpTo(S, n - 1)
         IN  shorter \cup {Append(s, c) : s \in shorter, c \in S}

\* str.strip(): leading and trailing whitespace removed.
RECURSIVE LStrip(_)
LStrip(s) == IF s # <<>> /\ Head(s) = " " THEN LStrip(Tail(s)) ELSE s

RECURSIVE RStrip(_)
RStrip(s) ==
    IF s # <<>> /\ s[Len(s)] = " " THEN RStrip(SubSeq(s, 1, Len(s) - 1)) ELSE s

Strip(s) == RStrip(LStrip(s))

\* Index of the last extsep of p, 0 when there is none (p.rfind(".") + 1).
RECURSIVE RFindDot(_)
RFindDot(p) ==
    IF p = <<>> THEN 0
    ELSE IF p[Len(p)] = "." THEN Len(p)
    ELSE RFindDot(SubSeq(p, 1, Len(p) - 1))

\* os.path.splitext(p)[1] of a name without directory part: the text from the
\* last dot on, unless everything before that dot is dots (".bashrc" -> "").
SplitExt(p) ==
    LET dot == RFindDot(p)
    IN  IF dot > 0 /\ \E i \in 1..(dot - 1) : p[i] # "."
        THEN SubSeq(p, dot, Len(p))
        ELSE <<>>

\* uuid.uuid4().hex: a token no earlier call returned; the k-th call's token
\* is written as k hex digits.
UuidHex(k) == [i \in 1..k |-> "f"]

\* ------------------------------------------------------------- file system
\* A path is a sequence of segments.  MEDIA_ROOT and the 'uploads' namespace.
MEDIA_ROOT == << <<"m">> >>
UploadsDir == Append(MEDIA_ROOT, <<"u">>)
DotDot == <<".", ".">>
Dot == <<".">>

\* os.path.join(a, b, c) for relative, slash-free b and c.
PathJoin(base, seg) == Append(base, seg)

\* The file system's resolution of a path: "." stays, ".." goes up.
RECURSIVE Resolve(_, _)
Resolve(done, rest) ==
    IF rest = <<>> THEN done
    ELSE IF Head(rest) = Dot THEN Resolve(done, Tail(rest))
    ELSE IF Head(rest) = DotDot
         THEN Resolve(IF done = <<>> THEN <<>> ELSE SubSeq(done, 1, Len(done) - 1),
                      Tail(rest))
    ELSE Resolve(Append(done, Head(rest)), Tail(rest))

RealPath(p) == Resolve(<<>>, p)

IsDirectory(p) == RealPath(p) \in {<<>>, MEDIA_ROOT, UploadsDir}

IsStoredFile(p, files) ==
    \E f \in files : RealPath(p) = PathJoin(UploadsDir, f.name)

\* os.path.exists
PathExists(p, files) == IsDirectory(p) \/ IsStoredFile(p, files)

\* p lies in the artifact namespace MEDIA_ROOT/uploads
InUploads(p) ==
    LET r == RealPath(p)
    IN  Len(r) >= Len(UploadsDir) /\ SubSeq(r, 1, Len(UploadsDir)) = UploadsDir

\* ------------------------------------------------------------------ inputs
Users == {"u1", "u2"}

\* The rows of the Document table: identifier -> owner, file URL.
DocumentIds == {"d1", "d2"}
DocOwner(d) == IF d = "d1" THEN "u1" ELSE "u2"
DocFileUrl(d) == IF d = "d1" THEN "/media/Documents/one.pdf" ELSE "/media/Documents/two.pdf"

\* document_id values a client sends: the two rows, a well-formed UUID that
\* names no row, and a string that is no UUID.
WellFormedUuids == DocumentIds \cup {"d9"}
DocumentIdInputs == WellFormedUuids \cup {"zz"}

\* text: absent (<<>>) or present (<<t>>)
TextInputs == {<<>>} \cup {<<t>> : t \in SeqsUpTo({" ", "h"}, MaxTextLen)}

\* audio: absent (<<>>) or an uploaded file (<<name>>):
\* "a.m", "a", ".m", "a.", "a.b.m"
AudioNames ==
    { <<"a", ".", "m">>, <<"a">>, <<".", "m">>, <<"a", ".">>,
      <<"a", ".", "b", ".", "m">> }
AudioInputs == {<<>>} \cup {<<n>> : n \in AudioNames}

\* The name of the Document model's identifier field.  The source declares it
\* twice and differently: models.py 24 declares `id`, while the model
\* serializer's Meta.fields (serializers.py 41), the detail view's lookup_field
\* (views.py 70), the URL converter (urls.py 14) and the chat view's lookup
\* (views.py 112) name `ids`.  Both declarations are taken as possible.
PkNames == {"id", "ids"}

\* The part of the URL after audio_stream/, split at "/".
StreamTails(files) ==
    {<<f.name>> : f \in files}
      \cup { <<DotDot>>, <<Dot>>, << <<"n">> >>,
             <<DotDot, DotDot, <<"e">>, <<"p">> >> }

\* What the workflow endpoint can answer: a final status and whether the body
\* is JSON; or no answer at all.
UpstreamStatuses == {200, 201, 304, 404, 500}
UpstreamAnswers == [status : UpstreamStatuses, json : BOOLEAN]

\* --------------------------------------------------------------- responses
NoExc == [type |-> "none", status |-> 0]
Exc(t) == [type |-> t, status |-> 0]
HttpExc(t, s) == [type |-> t, status |-> s]

NoResp == [status |-> 0, body |-> "none", cause |-> NoExc]
Response(st, body) == [status |-> st, body |-> body, cause |-> NoExc]
ErrorResponse(st, body, e) == [status |-> st, body |-> body, cause |-> e]
\* An exception that leaves the handler: the framework answers 500.
Unhandled(e) == [status |-> HTTP_500_INTERNAL, body |-> "unhandled", cause |-> e]

\* ------------------------------------------------------------------- state
VARIABLES
    pkName,      \* name of the Document model's identifier field
    store,       \* files under MEDIA_ROOT/uploads: set of [name, data]
    uuidCalls,   \* calls of uuid.uuid4() so far
    scratch,     \* temporary files of the transcription service: [req, state]
    handled,     \* requests received so far
    pc,          \* position of the request being handled
    kind,        \* "chat", "stream", "transcribe" or "none"
    user,        \* request.user
    document_id, \* request.data['document_id']
    text,        \* request.data['text']
    audio,       \* request.data['audio']
    tail,        \* URL tail (stream) or payload.filename (transcribe)
    vtext,       \* validated_data['text']
    document,    \* <<>> or <<identifier of the row found>>
    payload,     \* <<>> while the local is unbound, else <<payload>>
    lookups,     \* document lookups made for this request
    saved,       \* names written to the store for this request
    posts,       \* payloads POSTed to the workflow endpoint for this request
    upstream,    \* <<>> or <<answer of the workflow endpoint>>
    touched,     \* paths handed to os.path.exists for this request
    opened,      \* paths handed to open() for this request
    download,    \* status of the transcription service's download, 0 = none
    modelCalls,  \* invocations of the Whisper model for this request
    resp         \* the response, NoResp while there is none

globals == <<pkName, store, uuidCalls, scratch, handled>>
input == <<kind, user, document_id, text, audio, tail>>
locals == <<vtext, document, payload, lookups, saved, posts, upstream, touched,
            opened, download, modelCalls>>
vars == <<globals, pc, input, locals, resp>>

Init ==
    /\ pkName \in PkNames
    /\ store = {}
    /\ uuidCalls = 0
    /\ scratch = <<>>
    /\ handled = 0
    /\ pc = "idle"
    /\ kind = "none"
    /\ user = "u1"
    /\ document_id = "zz"
    /\ text = <<>>
    /\ audio = <<>>
    /\ tail = <<>>
    /\ vtext = <<>>
    /\ document = <<>>
    /\ payload = <<>>
    /\ lookups = 0
    /\ saved = {}
    /\ posts = <<>>
    /\ upstream = <<>>
    /\ touched = {}
    /\ opened = {}
    /\ download = 0
    /\ modelCalls = 0
    /\ resp = NoResp

FreshLocals ==
    /\ vtext' = <<>>
    /\ document' = <<>>
    /\ payload' = <<>>
    /\ lookups' = 0
    /\ saved' = {}
    /\ posts' = <<>>
    /\ upstream' = <<>>
    /\ touched' = {}
    /\ opened' = {}
    /\ download' = 0
    /\ modelCalls' = 0
    /\ resp' = NoResp

\* The handler returns r (or an exception leaves it).
Respond(r) == resp' = r /\ pc' = "done"

\* ------------------------------------------------------ POST /chat/ (Django)
\* CharField(trim_whitespace=True).to_internal_value
TrimmedText(t) == IF t = <<>> THEN <<>> ELSE <<Strip(t[1])>>

\* A validate() that rejects only a text field that was not sent.
CrossFieldValidAbsentOnly(t, a) == ~(a = <<>> /\ t = <<>>)

\* ChatInputSerializer.validate: the cross-field rule.
CrossFieldValid(t, a) ==
    ~(a = <<>> /\ (t = <<>> \/ t[1] = <<>> \/ Strip(t[1]) = <<>>))

\* serializer.is_valid(): the UUID field, then validate(attrs).
SerializerValid(d, t, a) ==
    /\ d \in WellFormedUuids
    /\ CrossFieldValid(TrimmedText(t), a)

\* Document.objects.get(ids=...): the keyword must be a field of the model,
\* else the ORM raises FieldError (which is no Document.DoesNotExist).
LookupKeywordResolves(pk) == pk = "ids"

\* A guard that lets every requester through.
OwnerNeverMismatches(u, d) == FALSE

\* request.user != document.user
OwnerMismatch(u, d) == u # DocOwner(d)

\* f"{uuid.uuid4().hex}{ext}"
UniqueFilename(k, name) == UuidHex(k) \o SplitExt(name)

\* Storage.get_available_name: the name itself unless a file has it.
AvailableName(files, name) ==
    IF \E f \in files : f.name = name
    THEN SubSeq(name, 1, Len(name) - Len(SplitExt(name))) \o <<"_", "r">>
           \o SplitExt(name)
    ELSE name

\* default_storage.save(os.path.join('uploads', name), content)
StorageSave(files, name, data) ==
    files \cup {[name |-> AvailableName(files, name), data |-> data]}

BuildPayload(d, q) == [document_url |-> DocFileUrl(d), user_query |-> q]

\* A status check that raises for server errors only.
RaisesForServerErrorOnly(s) == 500 <= s /\ s < 600

\* resp.raise_for_status(): HTTPError for 4xx and 5xx.
RaisesForStatus(s) == 400 <= s /\ s < 600

ChatReceive ==
    /\ pc = "idle"
    /\ handled < MaxRequests
    /\ \E u \in Users, d \in DocumentIdInputs, t \in TextInputs, a \in AudioInputs :
         /\ user' = u
         /\ document_id' = d
         /\ text' = t
         /\ audio' = a
    /\ kind' = "chat"
    /\ tail' = <<>>
    /\ handled' = handled + 1
    /\ pc' = "chat_validate"
    /\ FreshLocals
    /\ UNCHANGED <<pkName, store, uuidCalls, scratch>>

\* views.py 107-109
ChatValidate ==
    /\ pc = "chat_validate"
    /\ IF SerializerValid(document_id, text, audio)
       THEN /\ vtext' = TrimmedText(text)
            /\ pc' = "chat_lookup"
            /\ UNCHANGED resp
       ELSE /\ Respond(Response(HTTP_400_BAD_REQUEST, "serializer.errors"))
            /\ UNCHANGED vtext
    /\ UNCHANGED <<globals, input, document, payload, lookups, saved, posts,
                   upstream, touched, opened, download, modelCalls>>

\* views.py 111-114
ChatLookup ==
    /\ pc = "chat_lookup"
    /\ lookups' = lookups + 1
    /\ IF ~LookupKeywordResolves(pkName)
       THEN /\ Respond(Unhandled(Exc("FieldError")))
            /\ UNCHANGED document
       ELSE IF document_id \notin DocumentIds
       THEN /\ Respond(Response(HTTP_404_NOT_FOUND, "Document not found."))
            /\ UNCHANGED document
       ELSE /\ document' = <<document_id>>
            /\ pc' = "chat_owner"
            /\ UNCHANGED resp
    /\ UNCHANGED <<globals, input, vtext, payload, saved, posts, upstream,
                   touched, opened, download, modelCalls>>

\* views.py 116-117
ChatOwner ==
    /\ pc = "chat_owner"
    /\ IF OwnerMismatch(user, document[1])
       THEN Respond(Response(HTTP_401_UNAUTHORIZED, "User not matched."))
       ELSE pc' = "chat_audio" /\ UNCHANGED resp
    /\ UNCHANGED <<globals, input, locals>>

\* views.py 119-136
ChatAudio ==
    /\ pc = "chat_audio"
    /\ IF audio # <<>>
       THEN LET name == UniqueFilename(uuidCalls + 1, audio[1])
                after == StorageSave(store, name, audio[1])
            IN  /\ uuidCalls' = uuidCalls + 1
                /\ store' = after
                /\ saved' = saved \cup {f.name : f \in after \ store}
                /\ payload' = <<BuildPayload(document[1], name)>>
       ELSE UNCHANGED <<uuidCalls, store, saved, payload>>
    /\ pc' = "chat_dispatch"
    /\ UNCHANGED <<pkName, scratch, handled, input, vtext, document, lookups,
                   posts, upstream, touched, opened, download, modelCalls, resp>>

\* views.py 138-142
ChatDispatch ==
    /\ pc = "chat_dispatch"
    /\ IF payload = <<>>
       THEN \* json=payload reads an unbound local
            /\ Respond(Unhandled(Exc("UnboundLocalError")))
            /\ UNCHANGED <<posts, upstream>>
       ELSE /\ posts' = Append(posts, payload[1])
            /\ \/ /\ Respond(ErrorResponse(HTTP_502_BAD_GATEWAY,
                                           "Failed to send data to n8n",
                                           Exc("ConnectionError")))
                  /\ UNCHANGED upstream
               \/ \E ans \in UpstreamAnswers :
                    /\ upstream' = <<ans>>
                    /\ IF RaisesForStatus(ans.status)
                       THEN Respond(ErrorResponse(HTTP_502_BAD_GATEWAY,
                                                  "Failed to send data to n8n",
                                                  HttpExc("HTTPError", ans.status)))
                       ELSE pc' = "chat_relay" /\ UNCHANGED resp
    /\ UNCHANGED <<globals, input, vtext, document, payload, lookups, saved,
                   touched, opened, download, modelCalls>>

\* views.py 145
ChatRelay ==
    /\ pc = "chat_relay"
    /\ IF upstream[1].json
       THEN Respond(Response(HTTP_200_OK, "n8n_response"))
       ELSE Respond(Unhandled(Exc("JSONDecodeError")))
    /\ UNCHANGED <<globals, input, locals>>

\* ------------------------------------- GET /audio_stream/<str:filename> (Django)
\* path('audio_stream/<str:filename>'): the str converter takes one non-empty
\* segment without "/".
RouteMatches(t) == Len(t) = 1 /\ t[1] # <<>>

\* os.path.join(settings.MEDIA_ROOT, 'uploads', filename)
AudioUrl(filename) == PathJoin(UploadsDir, filename)

\* StreamAudioFromUrl.get without its bookkeeping: the answer for a filename.
StreamAnswer(filename, files) ==
    IF ~PathExists(AudioUrl(filename), files)
    THEN Response(HTTP_404_NOT_FOUND, "File not found.")
    ELSE IF IsDirectory(AudioUrl(filename))
    THEN Unhandled(Exc("IsADirectoryError"))
    ELSE Response(HTTP_200_OK, "FileResponse")

\* What a client of the stream endpoint gets for a URL tail.
StreamStatus(t, files) ==
    IF RouteMatches(t) THEN StreamAnswer(t[1], files).status
    ELSE HTTP_404_NOT_FOUND

StreamReceive ==
    /\ pc = "idle"
    /\ handled < MaxRequests
    /\ tail' \in StreamTails(store)
    /\ kind' = "stream"
    /\ handled' = handled + 1
    /\ pc' = "stream_route"
    /\ FreshLocals
    /\ UNCHANGED <<pkName, store, uuidCalls, scratch, user, document_id, text, audio>>

\* urls.py 16
StreamRoute ==
    /\ pc = "stream_route"
    /\ IF RouteMatches(tail)
       THEN pc' = "stream_get" /\ UNCHANGED resp
       ELSE Respond(Response(HTTP_404_NOT_FOUND, "Resolver404"))
    /\ UNCHANGED <<globals, input, locals>>

\* views.py 177-183
StreamGet ==
    /\ pc = "stream_get"
    /\ touched' = touched \cup {AudioUrl(tail[1])}
    /\ opened' = IF PathExists(AudioUrl(tail[1]), store)
                 THEN opened \cup {AudioUrl(tail[1])}
                 ELSE opened
    /\ Respond(StreamAnswer(tail[1], store))
    /\ UNCHANGED <<globals, input, vtext, document, payload, lookups, saved,
                   posts, upstream, download, modelCalls>>

\* ------------------------------------------- POST /transcribe/ (FastAPI)
\* except Exception as e: raise HTTPException(status_code=500, detail=str(e))
TranscribeExcept(e) == ErrorResponse(HTTP_500_INTERNAL, "detail", e)

TranscribeReceive ==
    /\ pc = "idle"
    /\ handled < MaxRequests
    /\ tail' \in StreamTails(store)
    /\ kind' = "transcribe"
    /\ handled' = handled + 1
    /\ pc' = "transcribe_download"
    /\ FreshLocals
    /\ UNCHANGED <<pkName, store, uuidCalls, scratch, user, document_id, text, audio>>

\* routes.py 48-52, 64-65
TranscribeDownload ==
    /\ pc = "transcribe_download"
    /\ \/ /\ Respond(TranscribeExcept(Exc("ConnectionError")))
          /\ UNCHANGED download
       \/ /\ download' = StreamStatus(tail, store)
          /\ IF StreamStatus(tail, store) # HTTP_200_OK
             THEN Respond(TranscribeExcept(HttpExc("HTTPException", HTTP_400_BAD_REQUEST)))
             ELSE pc' = "transcribe_save" /\ UNCHANGED resp
    /\ UNCHANGED <<globals, input, vtext, document, payload, lookups, saved,
                   posts, upstream, touched, opened, modelCalls>>

\* routes.py 55-57, 64-65
TranscribeSave ==
    /\ pc = "transcribe_save"
    /\ \/ /\ scratch' = Append(scratch, [req |-> handled, state |-> "complete"])
          /\ pc' = "transcribe_run"
          /\ UNCHANGED resp
       \/ /\ scratch' = Append(scratch, [req |-> handled, state |-> "partial"])
          /\ Respond(TranscribeExcept(Exc("OSError")))
    /\ UNCHANGED <<pkName, store, uuidCalls, handled, input, locals>>

\* routes.py 60-65
TranscribeRun ==
    /\ pc = "transcribe_run"
    /\ modelCalls' = modelCalls + 1
    /\ \/ Respond(Response(HTTP_200_OK, "transcription"))
       \/ Respond(TranscribeExcept(Exc("RuntimeError")))
    /\ UNCHANGED <<globals, input, vtext, document, payload, lookups, saved,
                   posts, upstream, touched, opened, download>>

\* The response has been sent; the worker takes the next request.
Finish ==
    /\ pc = "done"
    /\ pc' = "idle"
    /\ kind' = "none"
    /\ user' = "u1"
    /\ document_id' = "zz"
    /\ text' = <<>>
    /\ audio' = <<>>
    /\ tail' = <<>>
    /\ FreshLocals
    /\ UNCHANGED globals

Next ==
    \/ ChatReceive
    \/ ChatValidate
    \/ ChatLookup
    \/ ChatOwner
    \/ ChatAudio
    \/ ChatDispatch
    \/ ChatRelay
    \/ StreamReceive
    \/ StreamRoute
    \/ StreamGet
    \/ TranscribeReceive
    \/ TranscribeDownload
    \/ TranscribeSave
    \/ TranscribeRun
    \/ Finish

Spec == Init /\ [][Next]_vars

\* The behaviours in which the Document model has the identifier field the
\* serializer (Meta.fields), the views and the URL configuration name: the
\* part of Spec in which the chat handler gets past its lookup.
InitIds == Init /\ pkName = "ids"
SpecIds == InitIds /\ [][Next]_vars

\* ------------------------------------------------------------------ claims
ChatDone == kind = "chat" /\ pc = "done"
BlankOrAbsent(t) == t = <<>> \/ Strip(t[1]) = <<>>
ByOwnerOfExisting == document_id \in DocumentIds /\ DocOwner(document_id) = user
EndsWith(s, suffix) ==
    Len(s) >= Len(suffix) /\ SubSeq(s, Len(s) - Len(suffix) + 1, Len(s)) = suffix
StoredNames == {f.name : f \in store}
ClientError(st) == 400 <= st /\ st < 500
\* The POST got no answer, or an answer with the given property.
DispatchEndedIn(Bad(_)) ==
    posts # <<>> /\ (upstream = <<>> \/ Bad(upstream[1].status))
Non2xx(st) == st < 200 \/ st > 299
ErrorStatus(st) == 400 <= st /\ st <= 599
DispatchCause ==
    IF upstream = <<>> THEN Exc("ConnectionError")
    ELSE HttpExc("HTTPError", upstream[1].status)

\* C1: a chat request whose text is absent or blank and which carries no
\* audio makes no document lookup, no write to the audio store and no webhook
\* dispatch at any point of its handling, and its response is HTTP 400.
C1_BlankRequestRejected ==
    (kind = "chat" /\ BlankOrAbsent(text) /\ audio = <<>>)
      => /\ lookups = 0
         /\ saved = {}
         /\ posts = <<>>
         /\ document = <<>>
         /\ pc = "done" => resp.status = HTTP_400_BAD_REQUEST

\* C1 witness: a whitespace-only text with a well-formed id of an existing
\* document has been answered.
C1_Witness ==
    /\ ChatDone
    /\ document_id \in DocumentIds
    /\ text = << <<" ">> >>
    /\ audio = <<>>
    /\ resp.status = HTTP_400_BAD_REQUEST

\* C2: a valid chat request for an existing document owned by another user is
\* answered 401, with no audio artifact written and no webhook dispatch, even
\* when it carries audio.
C2_ForeignDocumentUnauthorized ==
    (/\ ChatDone
     /\ SerializerValid(document_id, text, audio)
     /\ document_id \in DocumentIds
     /\ DocOwner(document_id) # user)
      => /\ resp.status = HTTP_401_UNAUTHORIZED
         /\ saved = {}
         /\ posts = <<>>

\* C3: a chat request whose document_id names no existing document is
\* answered 404 whatever its payload (text only, audio only, both, neither),
\* with no audio artifact written and no webhook dispatch.
C3_MissingDocumentNotFound ==
    (ChatDone /\ document_id \in WellFormedUuids \ DocumentIds)
      => /\ resp.status = HTTP_404_NOT_FOUND
         /\ saved = {}
         /\ posts = <<>>

\* C4: a chat request by the owner of an existing document with non-blank
\* text and no audio makes exactly one webhook dispatch, with payload
\* {document_url: the document's file URL, user_query: the trimmed text}, and
\* writes no audio artifact.
C4_TextDispatched ==
    (ChatDone /\ ByOwnerOfExisting /\ ~BlankOrAbsent(text) /\ audio = <<>>)
      => /\ posts = <<BuildPayload(document_id, Strip(text[1]))>>
         /\ saved = {}

\* C5: a chat request by the owner of an existing document that carries an
\* audio file creates exactly one artifact under 'uploads', whose generated
\* name ends with the original file's extension, and makes exactly one webhook
\* dispatch, with user_query that name and document_url the document's URL.
C5_AudioStoredAndDispatched ==
    (ChatDone /\ ByOwnerOfExisting /\ audio # <<>>)
      => /\ Cardinality(saved) = 1
         /\ \A n \in saved :
              /\ n \in StoredNames
              /\ InUploads(AudioUrl(n))
              /\ EndsWith(n, SplitExt(audio[1]))
              /\ posts = <<BuildPayload(document_id, n)>>

C7_DownloadFailureIsClientError ==
    (kind = "transcribe" /\ pc = "done" /\ download # 0 /\ Non2xx(download))
      => /\ ClientError(resp.status)
         /\ modelCalls = 0
         /\ \A i \in 1..Len(scratch) : scratch[i].req # handled

\* C8: the stream endpoint rejects a name that is not a single path segment
\* inside the namespace (one with a separator, or the segment ".."), and
\* never resolves or opens a path outside MEDIA_ROOT/uploads.
C8_NoTraversal ==
    kind = "stream"
      => /\ \A p \in touched \cup opened : InUploads(p)
         /\ (pc = "done" /\ (Len(tail) # 1 \/ tail[1] = DotDot))
              => ClientError(resp.status)

\* C9: every chat or transcribe request that passes validation ends in the
\* success response or in the structured error response of its failure
\* (404, 401, 502 for chat, 500 for transcription); no exception leaves the
\* handler untranslated.
C9_EveryFailureTranslated ==
    (pc = "done" /\ kind \in {"chat", "transcribe"})
      => /\ resp.body # "unhandled"
         /\ kind = "chat" =>
              resp.status \in {HTTP_200_OK, HTTP_400_BAD_REQUEST, HTTP_404_NOT_FOUND,
                               HTTP_401_UNAUTHORIZED, HTTP_502_BAD_GATEWAY}
         /\ kind = "transcribe" =>
              resp.status \in {HTTP_200_OK, HTTP_400_BAD_REQUEST, HTTP_500_INTERNAL}

====
